---- MODULE Spec2Model ----
(***************************************************************************)
(* Model of the GLiNER vector-database adapter (gliner/gliner_db):         *)
(*   gliner_db.py       HNSW (usearch) and IndexFlatIP (faiss) backends    *)
(*   auto_gliner_db.py  AutoGLiNERDb, the backend selector                 *)
(*   evaluate.py        EntityLinkingEvaluator                             *)
(* The two native engines are not part of the repository.  They are        *)
(* modelled by what the calls made in gliner_db.py do in usearch and       *)
(* faiss: usearch keeps (key, vector) pairs, refuses a key it already      *)
(* holds (Index(..., multi=False) is the default) and returns only the     *)
(* matches found; faiss.IndexFlatIP numbers vectors by insertion position  *)
(* and always returns k columns, padded with id -1.                        *)
(***************************************************************************)
EXTENDS Integers, Sequences, FiniteSets, TLC

(***************************************************************************)
(* Bounds of the model.                                                    *)
(***************************************************************************)
NDim == 2
MaxId == 1
MaxStored == 2
MaxBatch == MaxStored
MaxK == 3

Ids == 0..MaxId
TopKs == 1..MaxK

(***************************************************************************)
(* Vectors.  Every vector of the model is axis-aligned (one non-zero       *)
(* component), so that its Euclidean norm is an integer and the cosine     *)
(* distance of usearch is computed exactly in integers.                    *)
(***************************************************************************)
Axis(i, a) == [j \in 1..NDim |-> IF j = i THEN a ELSE 0]
UnitVecs == {Axis(i, 1) : i \in 1..NDim}
Vecs == UnitVecs \cup {Axis(1, 2)}

RECURSIVE DotUpTo(_, _, _)
DotUpTo(a, b, n) == IF n = 0 THEN 0 ELSE a[n] * b[n] + DotUpTo(a, b, n - 1)
Dot(a, b) == DotUpTo(a, b, NDim)

Abs(x) == IF x < 0 THEN 0 - x ELSE x
RECURSIVE NormUpTo(_, _)
NormUpTo(a, n) == IF n = 0 THEN 0 ELSE Abs(a[n]) + NormUpTo(a, n - 1)
Norm(a) == NormUpTo(a, NDim)

\* usearch MetricKind.Cos: 1 - <a,b> / (|a| |b|)
CosDistance(a, b) == 1 - (Dot(a, b) \div (Norm(a) * Norm(b)))

SeqsUpTo(S, n) == UNION {[1..m -> S] : m \in 0..n}
Range(s) == {s[i] : i \in DOMAIN s}

(***************************************************************************)
(* Metrics.  IndexFlatIP accepts 'dotprod' only (gliner_db.py:173).        *)
(* usearch resolves the metric name in its own table, which has 'cos' and  *)
(* does not have 'dotprod'.                                                *)
(***************************************************************************)
MetricNames == {"cos", "dotprod"}
UsearchMetrics == {"cos"}
FaissMetrics == {"dotprod"}

Kinds == {"HNSW", "IndexFlatIP"}

(***************************************************************************)
(* Ontology: a Python dict id -> {"label": ...}.  The keys of a dict are   *)
(* all ints (as the type hint Dict[int, ...] says) or all strings (what    *)
(* json.load gives back).  labels is the mapping on the numeric value of   *)
(* the key.                                                                *)
(***************************************************************************)
LabelOf(i) == IF i = 0 THEN "A" ELSE "B"
Ontology(kt, ks) == [keytype |-> kt, labels |-> [i \in ks |-> LabelOf(i)]]
Ontologies == {Ontology("int", {}), Ontology("int", Ids),
               Ontology("str", Ids), Ontology("str", {0})}

\* json.dump turns int keys into strings; json.load returns string keys.
JsonDumpOntology(o) == [keytype |-> "str", labels |-> o.labels]
JsonLoadOntology(doc) == doc

\* ontology[str(id)], the lookup of evaluate.py:43 and test_entity_linking.py:31
HasStrKey(o, id) == o.keytype = "str" /\ id \in DOMAIN o.labels

(***************************************************************************)
(* The native engines.                                                     *)
(***************************************************************************)
HeldKeys(index) == {index[j].key : j \in DOMAIN index}

\* the batch holds a key twice, or a key the index already holds
HasRepeatedKey(index, keys) ==
    \/ \E i \in DOMAIN keys : keys[i] \in HeldKeys(index)
    \/ \E i, j \in DOMAIN keys : i # j /\ keys[i] = keys[j]

\* the entries of the batch at the positions of sel, in batch order
RECURSIVE Picked(_, _, _, _)
Picked(keys, vectors, sel, i) ==
    IF i > Len(keys) THEN <<>>
    ELSE (IF i \in sel THEN <<[key |-> keys[i], vec |-> vectors[i]]>> ELSE <<>>)
         \o Picked(keys, vectors, sel, i + 1)

\* what a refused batch may leave behind: usearch adds the entries of a batch
\* on a pool of threads and stops at the first refusal, so any entries whose
\* keys are new and distinct, but not all of the batch, may have been added
MayBeAdded(index, keys, sel) ==
    /\ sel \subseteq DOMAIN keys
    /\ sel # DOMAIN keys
    /\ \A i \in sel : keys[i] \notin HeldKeys(index)
    /\ \A i, j \in sel : i # j => keys[i] # keys[j]

\* usearch Index.add(keys, vectors) of an index built with the default
\* multi=False: a key the index already holds is refused and the call raises.
\* sel is read only then: the entries that were added before the refusal.
UsearchAdd(index, keys, vectors, sel) ==
    IF HasRepeatedKey(index, keys)
       THEN [index |-> index \o Picked(keys, vectors, sel, 1), raised |-> TRUE]
       ELSE [index |-> index \o Picked(keys, vectors, DOMAIN keys, 1), raised |-> FALSE]

\* faiss IndexFlatIP.add(vectors): appended; the id of a vector is its
\* position, counted from 0.
FaissAdd(index, vectors) ==
    index \o [i \in 1..Len(vectors) |-> [key |-> Len(index) + i - 1, vec |-> vectors[i]]]

\* Position of the entry ranked r-th (1 = best); ties go to the earlier entry.
Better(score, i, j) == score[i] < score[j] \/ (score[i] = score[j] /\ i < j)
Ranked(score, r) ==
    CHOOSE i \in DOMAIN score : Cardinality({j \in DOMAIN score : Better(score, j, i)}) = r - 1

Min(a, b) == IF a < b THEN a ELSE b

\* usearch Index.search(query, count): the matches found, nearest first.
UsearchSearch(index, query, k) ==
    LET dist == [i \in DOMAIN index |-> CosDistance(index[i].vec, query)]
        n == Min(k, Len(index))
    IN  [ids |-> [r \in 1..n |-> index[Ranked(dist, r)].key],
         distances |-> [r \in 1..n |-> dist[Ranked(dist, r)]]]

\* faiss pads the missing columns with id -1 and the lowest float.
FaissPadId == -1
FaissPadDistance == -1000

\* a flat index that numbers its vectors from 1
FaissSearchOneBased(index, query, k) ==
    LET ip == [i \in DOMAIN index |-> Dot(index[i].vec, query)]
        neg == [i \in DOMAIN index |-> 0 - ip[i]]
        n == Len(index)
    IN  [ids |-> [r \in 1..k |-> IF r <= n THEN Ranked(neg, r) ELSE FaissPadId],
         distances |-> [r \in 1..k |-> IF r <= n THEN ip[Ranked(neg, r)]
                                                  ELSE FaissPadDistance]]

\* faiss IndexFlatIP.search(query, k): k columns, largest inner product first.
FaissSearch(index, query, k) ==
    LET ip == [i \in DOMAIN index |-> Dot(index[i].vec, query)]
        neg == [i \in DOMAIN index |-> 0 - ip[i]]
        n == Len(index)
    IN  [ids |-> [r \in 1..k |-> IF r <= n THEN Ranked(neg, r) - 1 ELSE FaissPadId],
         distances |-> [r \in 1..k |-> IF r <= n THEN ip[Ranked(neg, r)]
                                                  ELSE FaissPadDistance]]

(***************************************************************************)
(* State.                                                                  *)
(*   db    the backend object the caller holds: NoDb before any was built, *)
(*         None after a from_pretrained that returned None                 *)
(*   dir   the directory save_pretrained writes and from_pretrained reads  *)
(*   last  the last call and its outcome: out is what the caller gets      *)
(*         ("ok", "instance", "None", or the exception that propagates),   *)
(*         err the exception the call caught and printed, file the file    *)
(*         that error is about; num/den the fraction evaluate_in_context   *)
(*         returns                                                         *)
(*   ev    the EntityLinkingEvaluator the caller holds (built = FALSE:     *)
(*         none).  ev.db is self.db: the backend object handed to the      *)
(*         constructor, which the caller's db names too until the caller   *)
(*         builds or loads another one                                     *)
(***************************************************************************)
VARIABLES db, dir, last, ev

vars == <<db, dir, last, ev>>

NoDb == [kind |-> "NoDb"]
None == [kind |-> "None"]
IsBackend(x) == x.kind \in Kinds

NoCall == [op |-> "none", kind |-> "", out |-> "ok", err |-> "", file |-> "",
           metric |-> "", k |-> 0, num |-> 0, den |-> 1,
           ids |-> <<>>, distances |-> <<>>]
Call(op, kind, out) == [NoCall EXCEPT !.op = op, !.kind = kind, !.out = out]
Caught(op, kind, out, err, file) ==
    [NoCall EXCEPT !.op = op, !.kind = kind, !.out = out, !.err = err, !.file = file]

\* IndexFlatIP.__init__ without its metric test
MetricUnguarded(kind, metric) ==
    IF kind = "HNSW" THEN metric \in UsearchMetrics ELSE TRUE

\* HNSW.__init__ (usearch resolves the metric name) / IndexFlatIP.__init__
\* (metric == 'dotprod' or ValueError)
MetricAccepted(kind, metric) ==
    IF kind = "HNSW" THEN metric \in UsearchMetrics ELSE metric \in FaissMetrics

NewBackend(kind, ontology, ndim, metric) ==
    [kind |-> kind, ontology |-> ontology, ndim |-> ndim, metric |-> metric,
     index |-> <<>>]

ConstructError(kind) == IF kind = "HNSW" THEN "KeyError" ELSE "ValueError"

Construct(kind, ontology, metric) ==
    /\ UNCHANGED <<dir, ev>>
    /\ IF MetricAccepted(kind, metric)
          THEN /\ db' = NewBackend(kind, ontology, NDim, metric)
               /\ last' = [Call("init", kind, "ok") EXCEPT !.metric = metric]
          ELSE /\ db' = db
               /\ last' = [Call("init", kind, ConstructError(kind)) EXCEPT !.metric = metric]

\* add_data without its assert: the vectors go to the engine whatever the keys
AddDataUnchecked(b, keys, vectors, sel) ==
    IF b.kind = "HNSW" /\ Len(keys) = Len(vectors)
       THEN LET r == UsearchAdd(b.index, keys, vectors, sel)
            IN  [db |-> [b EXCEPT !.index = r.index],
                 out |-> IF r.raised THEN "RuntimeError" ELSE "ok"]
       ELSE [db |-> [b EXCEPT !.index = FaissAdd(b.index, vectors)], out |-> "ok"]

\* HNSW.add_data / IndexFlatIP.add_data: the object after the call and the
\* exception that propagates ("ok": none)
AddDataResult(b, keys, vectors, sel) ==
    IF Len(keys) # Len(vectors)
       THEN [db |-> b, out |-> "AssertionError"]
    ELSE IF b.kind = "HNSW"
       THEN LET r == UsearchAdd(b.index, keys, vectors, sel)
            IN  [db |-> [b EXCEPT !.index = r.index],
                 out |-> IF r.raised THEN "RuntimeError" ELSE "ok"]
    ELSE [db |-> [b EXCEPT !.index = FaissAdd(b.index, vectors)], out |-> "ok"]

\* the choices of sel for a call: see UsearchAdd (none when no key is refused)
Refusals(b, keys, vectors) ==
    IF b.kind = "HNSW" /\ Len(keys) = Len(vectors) /\ HasRepeatedKey(b.index, keys)
       THEN {sel \in SUBSET DOMAIN keys : MayBeAdded(b.index, keys, sel)}
       ELSE {{}}

AddData(keys, vectors, sel) ==
    /\ IsBackend(db)
    /\ Len(db.index) + Len(vectors) <= MaxStored
    /\ sel \in Refusals(db, keys, vectors)
    /\ LET r == AddDataResult(db, keys, vectors, sel)
       IN  /\ db' = r.db
           /\ last' = Call("add_data", db.kind, r.out)
    /\ UNCHANGED <<dir, ev>>

\* HNSW.search / IndexFlatIP.search
SearchResult(b, query, k) ==
    IF b.kind = "HNSW" THEN UsearchSearch(b.index, query, k)
                       ELSE FaissSearch(b.index, query, k)

Search(query, k) ==
    /\ IsBackend(db)
    /\ LET r == SearchResult(db, query, k)
       IN  last' = [Call("search", db.kind, "ok") EXCEPT !.k = k, !.ids = r.ids,
                                                         !.distances = r.distances]
    /\ UNCHANGED <<db, dir, ev>>

(***************************************************************************)
(* The directory.  An artifact is absent, unreadable (a write that failed  *)
(* half-way) or holds a document.                                          *)
(***************************************************************************)
NoFile == [t |-> "absent"]
Corrupt == [t |-> "corrupt"]
File(doc) == [t |-> "file", doc |-> doc]

ConfigFile == "gliner_db_config.json"
OntologyFile == "ontology.json"
IndexFile(kind) == IF kind = "HNSW" THEN "index.usearch" ELSE "index.faiss"

EmptyDir == [exists |-> FALSE, config |-> NoFile, ontology |-> NoFile,
             usearch |-> NoFile, faiss |-> NoFile]

IndexArtifact(d, kind) == IF kind = "HNSW" THEN d.usearch ELSE d.faiss
WithIndexArtifact(d, kind, f) ==
    IF kind = "HNSW" THEN [d EXCEPT !.usearch = f] ELSE [d EXCEPT !.faiss = f]

\* GLiNERDBConfig.__init__ and to_dict
GLiNERDBConfig(db_type, ndim, metric) ==
    [db_type |-> db_type, ndim |-> ndim, metric |-> metric, model_type |-> "gliner_db"]

\* the db_type each save_pretrained writes when no config is passed
DefaultDbType(kind) == IF kind = "HNSW" THEN "HNSW" ELSE "HNSWfaiss"

NoConfigArg == [db_type |-> "", ndim |-> 0, metric |-> "", model_type |-> ""]
ConfigArgs == {GLiNERDBConfig("HNSW", NDim, "cos"),
               GLiNERDBConfig("HNSWfaiss", NDim, "dotprod"),
               GLiNERDBConfig("IndexFlatIP", NDim, "dotprod")}

(***************************************************************************)
(* save_pretrained.  failAt names the step that raises in this call        *)
(* ("none": no step does); partial tells whether the failing write left a  *)
(* truncated file behind (open(..., 'w') succeeded, the dump did not).     *)
(***************************************************************************)
SaveSteps == <<"makedirs", "index", "config", "ontology">>
FailPoints == {"none"} \cup Range(SaveSteps)

FailedWrite(old, partial) == IF partial THEN Corrupt ELSE old

\* save_pretrained writing the config document before the native index
SavedDirConfigFirst(b, d, config, failAt, partial) ==
    LET cfg == IF config = NoConfigArg
                  THEN GLiNERDBConfig(DefaultDbType(b.kind), b.ndim, b.metric)
                  ELSE config
        d1 == [d EXCEPT !.exists = TRUE]
        d2 == [d1 EXCEPT !.config = File(cfg)]
        d3 == WithIndexArtifact(d2, b.kind, File(b.index))
        d4 == [d3 EXCEPT !.ontology = File(JsonDumpOntology(b.ontology))]
    IN  IF ~d.exists /\ failAt = "makedirs" THEN d
        ELSE IF failAt = "config"
           THEN [d1 EXCEPT !.config = FailedWrite(d1.config, partial)]
        ELSE IF failAt = "index"
           THEN WithIndexArtifact(d2, b.kind, FailedWrite(IndexArtifact(d2, b.kind), partial))
        ELSE IF failAt = "ontology"
           THEN [d3 EXCEPT !.ontology = FailedWrite(d3.ontology, partial)]
        ELSE d4

\* the directory after save_pretrained: makedirs, then the native index, the
\* config document and the ontology document, up to the step that fails
SavedDir(b, d, config, failAt, partial) ==
    LET cfg == IF config = NoConfigArg
                  THEN GLiNERDBConfig(DefaultDbType(b.kind), b.ndim, b.metric)
                  ELSE config
        d1 == [d EXCEPT !.exists = TRUE]
        d2 == WithIndexArtifact(d1, b.kind, File(b.index))
        d3 == [d2 EXCEPT !.config = File(cfg)]
        d4 == [d3 EXCEPT !.ontology = File(JsonDumpOntology(b.ontology))]
    IN  IF ~d.exists /\ failAt = "makedirs" THEN d
        ELSE IF failAt = "index"
           THEN WithIndexArtifact(d1, b.kind, FailedWrite(IndexArtifact(d1, b.kind), partial))
        ELSE IF failAt = "config"
           THEN [d2 EXCEPT !.config = FailedWrite(d2.config, partial)]
        ELSE IF failAt = "ontology"
           THEN [d3 EXCEPT !.ontology = FailedWrite(d3.ontology, partial)]
        ELSE d4

\* the step whose exception the call catches and prints ("" when none)
SaveFailure(d, failAt) ==
    IF failAt = "none" \/ (d.exists /\ failAt = "makedirs") THEN "" ELSE failAt

SavePretrained(config, failAt, partial) ==
    /\ IsBackend(db)
    /\ dir' = SavedDir(db, dir, config, failAt, partial)
    /\ last' = IF SaveFailure(dir, failAt) = ""
                  THEN Call("save_pretrained", db.kind, "ok")
                  ELSE Caught("save_pretrained", db.kind, "ok", "OSError",
                              SaveFailure(dir, failAt))
    /\ UNCHANGED <<db, ev>>

(***************************************************************************)
(* from_pretrained (a classmethod: kind is the class it is called on).     *)
(* Every exception raised in the body is caught, printed, and None is      *)
(* returned.                                                               *)
(***************************************************************************)
\* from_pretrained that builds the instance and never reads the index file
LoadedWithoutIndex(kind, d) ==
    NewBackend(kind, JsonLoadOntology(d.ontology.doc), d.config.doc.ndim,
               d.config.doc.metric)

\* the instance from_pretrained returns when nothing fails
Loaded(kind, d) ==
    LET config == d.config.doc
        ontology == JsonLoadOntology(d.ontology.doc)
        instance == NewBackend(kind, ontology, config.ndim, config.metric)
    IN  [instance EXCEPT !.index = IndexArtifact(d, kind).doc]

\* from_pretrained looking for the index file first
LoadErrorIndexFirst(kind, d) ==
    IF IndexArtifact(d, kind) = NoFile
       THEN [err |-> "FileNotFoundError", file |-> IndexFile(kind)]
    ELSE IF d.config = NoFile THEN [err |-> "FileNotFoundError", file |-> ConfigFile]
    ELSE IF d.config = Corrupt THEN [err |-> "JSONDecodeError", file |-> ConfigFile]
    ELSE IF d.ontology = NoFile THEN [err |-> "FileNotFoundError", file |-> OntologyFile]
    ELSE IF d.ontology = Corrupt THEN [err |-> "JSONDecodeError", file |-> OntologyFile]
    ELSE IF ~MetricAccepted(kind, d.config.doc.metric)
       THEN [err |-> ConstructError(kind), file |-> ""]
    ELSE IF IndexArtifact(d, kind) = Corrupt
       THEN [err |-> "RuntimeError", file |-> IndexFile(kind)]
    ELSE [err |-> "", file |-> ""]

\* the exception raised inside the try block and the file it names
LoadError(kind, d) ==
    IF d.config = NoFile THEN [err |-> "FileNotFoundError", file |-> ConfigFile]
    ELSE IF d.config = Corrupt THEN [err |-> "JSONDecodeError", file |-> ConfigFile]
    ELSE IF d.ontology = NoFile THEN [err |-> "FileNotFoundError", file |-> OntologyFile]
    ELSE IF d.ontology = Corrupt THEN [err |-> "JSONDecodeError", file |-> OntologyFile]
    ELSE IF ~MetricAccepted(kind, d.config.doc.metric)
       THEN [err |-> ConstructError(kind), file |-> ""]
    ELSE IF IndexArtifact(d, kind) = NoFile
       THEN [err |-> "FileNotFoundError", file |-> IndexFile(kind)]
    ELSE IF IndexArtifact(d, kind) = Corrupt
       THEN [err |-> "RuntimeError", file |-> IndexFile(kind)]
    ELSE [err |-> "", file |-> ""]

FromPretrainedResult(kind, d) ==
    LET e == LoadError(kind, d)
    IN  IF e.err = ""
           THEN [db |-> Loaded(kind, d), call |-> Call("from_pretrained", kind, "instance")]
           ELSE [db |-> None,
                 call |-> Caught("from_pretrained", kind, "None", e.err, e.file)]

FromPretrained(kind) ==
    /\ LET r == FromPretrainedResult(kind, dir)
       IN  /\ db' = r.db
           /\ last' = r.call
    /\ UNCHANGED <<dir, ev>>

(***************************************************************************)
(* AutoGLiNERDb.from_pretrained.  auto_gliner_db.py imports the names      *)
(* BaseVectorDb, HNSW and HNSWfaiss from gliner_db.py, which defines the   *)
(* classes BaseVectorDb, HNSW and IndexFlatIP.  The call is modelled       *)
(* together with the import that has to precede it.                        *)
(***************************************************************************)
GlinerDbNames == {"BaseVectorDb", "HNSW", "IndexFlatIP"}
AutoImports == {"BaseVectorDb", "HNSW", "HNSWfaiss"}
ImportResolves == AutoImports \subseteq GlinerDbNames

\* the class name the selector calls from_pretrained on ("" when none)
Dispatch(db_type) ==
    IF db_type = "HNSW" THEN "HNSW"
    ELSE IF db_type = "HNSWfaiss" THEN "HNSWfaiss"
    ELSE ""

Raised(op, exc, file) == [db |-> db, call |-> [Call(op, "", exc) EXCEPT !.file = file]]

AutoFromPretrainedResult(d) ==
    LET op == "AutoGLiNERDb.from_pretrained"
    IN  IF ~ImportResolves THEN Raised(op, "ImportError", "")
        ELSE IF ~d.exists THEN Raised(op, "RepositoryNotFoundError", "")
        ELSE IF d.config = NoFile THEN Raised(op, "FileNotFoundError", ConfigFile)
        ELSE IF d.config = Corrupt THEN Raised(op, "JSONDecodeError", ConfigFile)
        ELSE LET cls == Dispatch(d.config.doc.db_type)
             IN  IF cls = "" THEN Raised(op, "ValueError", "")
                 ELSE IF cls \notin Kinds THEN Raised(op, "NameError", "")
                 ELSE LET r == FromPretrainedResult(cls, d)
                      IN  [db |-> r.db, call |-> [r.call EXCEPT !.op = op]]

AutoFromPretrained ==
    /\ LET r == AutoFromPretrainedResult(dir)
       IN  /\ db' = r.db
           /\ last' = r.call
    /\ UNCHANGED <<dir, ev>>

(***************************************************************************)
(* EntityLinkingEvaluator.  A dataset is a list of examples, an example    *)
(* the list of its gold spans; a span carries its gold label and emb, the  *)
(* span representation the model computes for it (model.model(...)[5]).    *)
(* model.encode_labels is a fixed encoder.                                 *)
(***************************************************************************)
MaxExamples == 2
MaxSpans == 1

GoldLabels == {"A", "B", "C"}
EncodeLabel(l) == IF l = "A" THEN Axis(1, 1) ELSE IF l = "B" THEN Axis(2, 1) ELSE Axis(1, 2)

Spans == [label : GoldLabels, emb : UnitVecs]
Examples == SeqsUpTo(Spans, MaxSpans)
Datasets == SeqsUpTo(Examples, MaxExamples)

RECURSIVE AllSpans(_)
AllSpans(data) == IF data = <<>> THEN <<>> ELSE Head(data) \o AllSpans(Tail(data))

DistinctLabels(data) == {sp.label : sp \in Range(AllSpans(data))}

\* list(set(...)): the distinct labels in the order the set yields them
LabelOrders(data) ==
    {o \in [1..Cardinality(DistinctLabels(data)) -> DistinctLabels(data)] :
        Range(o) = DistinctLabels(data)}

\* np.array(list(ontology.keys())), as the engine reads the keys: the numeric
\* values, in the order of the dict
RECURSIVE Ascending(_)
Ascending(S) ==
    IF S = {} THEN <<>>
    ELSE LET m == CHOOSE x \in S : \A y \in S : x <= y
         IN  <<m>> \o Ascending(S \ {m})
OntologyKeys(o) == Ascending(DOMAIN o.labels)

NoEval == [built |-> FALSE, db |-> NoDb, data |-> <<>>, labels |-> <<>>, scores |-> <<>>]

\* __init__ and _prepare_db
EvaluatorInit(data, labels, sel) ==
    /\ IsBackend(db)
    /\ labels \in LabelOrders(data)
    /\ Len(db.index) + Len(labels) <= MaxStored
    /\ LET keys == OntologyKeys(db.ontology)
           encoded_labels == [i \in DOMAIN labels |-> EncodeLabel(labels[i])]
       IN  /\ sel \in Refusals(db, keys, encoded_labels)
           /\ LET r == AddDataResult(db, keys, encoded_labels, sel)
              IN  /\ db' = r.db
                  /\ last' = Call("EntityLinkingEvaluator", db.kind, r.out)
                  /\ ev' = IF r.out = "ok"
                              THEN [built |-> TRUE, db |-> r.db, data |-> data,
                                    labels |-> labels, scores |-> <<>>]
                              ELSE ev
    /\ dir' = dir

\* the loop of evaluate.py:41-48 for one span: the score appended, or the
\* exception raised by res["ids"][i] or by ontology[str(id)]
RECURSIVE MatchFrom(_, _, _, _, _)
MatchFrom(b, ids, label, top_k, i) ==
    IF i > top_k THEN [exc |-> "", score |-> 0]
    ELSE IF i > Len(ids) THEN [exc |-> "IndexError", score |-> 0]
    ELSE IF ~HasStrKey(b.ontology, ids[i]) THEN [exc |-> "KeyError", score |-> 0]
    ELSE IF b.ontology.labels[ids[i]] = label THEN [exc |-> "", score |-> 1]
    ELSE MatchFrom(b, ids, label, top_k, i + 1)

SpanScore(b, span, top_k) ==
    MatchFrom(b, SearchResult(b, span.emb, top_k).ids, span.label, top_k, 1)

\* the spans in order, up to the first exception
RECURSIVE ScoreSpans(_, _, _, _)
ScoreSpans(b, spans, top_k, scores) ==
    IF spans = <<>> THEN [exc |-> "", scores |-> scores]
    ELSE LET r == SpanScore(b, Head(spans), top_k)
         IN  IF r.exc # "" THEN [exc |-> r.exc, scores |-> scores]
             ELSE ScoreSpans(b, Tail(spans), top_k, Append(scores, r.score))

RECURSIVE Sum(_)
Sum(s) == IF s = <<>> THEN 0 ELSE Head(s) + Sum(Tail(s))

\* sum(scores) / len(scores) if scores else 0, as the fraction num/den
Accuracy(scores) ==
    IF scores # <<>> THEN [num |-> Sum(scores), den |-> Len(scores)]
                     ELSE [num |-> 0, den |-> 1]

EvaluateInContext(top_k) ==
    /\ ev.built
    /\ LET r == ScoreSpans(ev.db, AllSpans(ev.data), top_k, <<>>)
           acc == Accuracy(r.scores)
       IN  /\ ev' = [ev EXCEPT !.scores = r.scores]
           /\ last' = IF r.exc = ""
                         THEN [Call("evaluate_in_context", ev.db.kind, "ok")
                                  EXCEPT !.k = top_k, !.num = acc.num, !.den = acc.den]
                         ELSE [Call("evaluate_in_context", ev.db.kind, r.exc)
                                  EXCEPT !.k = top_k]
    /\ UNCHANGED <<db, dir>>

Init ==
    /\ db = NoDb
    /\ dir = EmptyDir
    /\ last = NoCall
    /\ ev = NoEval

(***************************************************************************)
(* Spec: a backend in memory (construction, add_data, search).             *)
(***************************************************************************)
Next ==
    \/ \E kind \in Kinds, o \in Ontologies, m \in MetricNames : Construct(kind, o, m)
    \/ \E keys \in SeqsUpTo(Ids, MaxBatch), vectors \in SeqsUpTo(Vecs, MaxBatch) :
          \E sel \in SUBSET DOMAIN keys : AddData(keys, vectors, sel)
    \/ \E q \in Vecs, k \in TopKs : Search(q, k)

Spec == Init /\ [][Next]_vars

(***************************************************************************)
(* SpecIO: persistence (construction, add_data, save_pretrained,           *)
(* from_pretrained of either class, the selector).                         *)
(***************************************************************************)
NextIO ==
    \/ \E kind \in Kinds, m \in MetricNames : Construct(kind, Ontology("int", Ids), m)
    \/ \E n \in 0..MaxBatch : \E keys \in [1..n -> Ids], vectors \in [1..n -> UnitVecs] :
          \E sel \in SUBSET DOMAIN keys : AddData(keys, vectors, sel)
    \/ \E f \in FailPoints :
          \E c \in (IF f \in {"makedirs", "index"} THEN {NoConfigArg}
                                                  ELSE {NoConfigArg} \cup ConfigArgs),
             p \in (IF f \in {"none", "makedirs"} THEN {FALSE} ELSE BOOLEAN) :
             SavePretrained(c, f, p)
    \/ \E kind \in Kinds : FromPretrained(kind)
    \/ AutoFromPretrained

SpecIO == Init /\ [][NextIO]_vars

(***************************************************************************)
(* SpecEval: the caller builds a backend, then evaluators on it.           *)
(***************************************************************************)
NextEval ==
    \/ /\ ~ev.built
       /\ \E kind \in Kinds, o \in Ontologies, m \in MetricNames : Construct(kind, o, m)
    \/ \E data \in Datasets : \E labels \in LabelOrders(data) :
          \E sel \in SUBSET DOMAIN labels : EvaluatorInit(data, labels, sel)
    \/ \E k \in TopKs : EvaluateInContext(k)

SpecEval == Init /\ [][NextEval]_vars

(***************************************************************************)
(* Properties of a backend in memory (checked under Spec).                 *)
(***************************************************************************)
StoredVecs(b) == [i \in DOMAIN b.index |-> b.index[i].vec]

\* every stored vector is reported by a search that asks for all of them
AllSearchable(b) ==
    \A q \in Vecs :
        LET ids == SearchResult(b, q, Len(b.index)).ids
        IN  /\ Len(ids) = Len(b.index)
            /\ \A i, j \in DOMAIN ids : i # j => ids[i] # ids[j]
            /\ FaissPadId \notin Range(ids)

\* C2: for either backend holding N vectors, search(q, k) with k > N returns
\* exactly N ids and N distances, none of them a padding entry.
KBounding ==
    (last.op = "search" /\ last.k > Len(db.index)) =>
        /\ Len(last.ids) = Len(db.index)
        /\ Len(last.distances) = Len(db.index)
        /\ FaissPadId \notin Range(last.ids)

\* C3: every id a search returns has an entry ontology[str(id)] in the
\* ontology of the backend.
OntologyComplete ==
    last.op = "search" => \A i \in DOMAIN last.ids : HasStrKey(db.ontology, last.ids[i])

\* C8 as stated: add_data with len(keys) # len(vectors) raises AssertionError
\* and leaves the index alone; with equal lengths, on either backend, the call
\* succeeds, every passed vector is stored and searchable, repeated keys
\* included.
AddDataAccumulates ==
    [][last'.op = "add_data" =>
       \A keys \in SeqsUpTo(Ids, MaxBatch), vectors \in SeqsUpTo(Vecs, MaxBatch) :
          \A sel \in Refusals(db, keys, vectors) :
             AddData(keys, vectors, sel) =>
                IF Len(keys) # Len(vectors)
                   THEN last'.out = "AssertionError" /\ db' = db
                   ELSE /\ last'.out = "ok"
                        /\ StoredVecs(db') = StoredVecs(db) \o vectors
                        /\ AllSearchable(db')]_vars

\* C8, amended: add_data with len(keys) # len(vectors) raises AssertionError
\* and leaves the index alone.  With equal lengths IndexFlatIP stores every
\* passed vector, repeated keys included, and so does HNSW when the keys are
\* distinct and new to the index; HNSW given a repeated key raises and does
\* not store the whole batch.  Every call that succeeds grows the stored
\* count by len(vectors), and every stored vector is searchable.
AddDataLengthCheck ==
    [][last'.op = "add_data" =>
       \A keys \in SeqsUpTo(Ids, MaxBatch), vectors \in SeqsUpTo(Vecs, MaxBatch) :
          \A sel \in Refusals(db, keys, vectors) :
             AddData(keys, vectors, sel) =>
                IF Len(keys) # Len(vectors)
                   THEN last'.out = "AssertionError" /\ db' = db
                ELSE IF db.kind = "HNSW" /\ HasRepeatedKey(db.index, keys)
                   THEN /\ last'.out = "RuntimeError"
                        /\ Len(db'.index) < Len(db.index) + Len(vectors)
                        /\ AllSearchable(db')
                   ELSE /\ last'.out = "ok"
                        /\ StoredVecs(db') = StoredVecs(db) \o vectors
                        /\ Len(db'.index) = Len(db.index) + Len(vectors)
                        /\ AllSearchable(db')]_vars

\* C8 witness: HNSW has refused a repeated key and kept what it held.
AddDataRefusedWitness ==
    /\ last.op = "add_data"
    /\ last.kind = "HNSW"
    /\ last.out = "RuntimeError"
    /\ Len(db.index) = 1

\* search reports the vector v under id j: whatever the query, a search for
\* all the stored vectors has exactly one column with id j, and its distance
\* is the inner product of v and the query (the queries span the space, so
\* these inner products determine v)
ReportedUnder(b, j, v) ==
    \A q \in Vecs :
        LET r == SearchResult(b, q, Len(b.index))
        IN  /\ Cardinality({c \in DOMAIN r.ids : r.ids[c] = j}) = 1
            /\ \A c \in DOMAIN r.ids : r.ids[c] = j => r.distances[c] = Dot(v, q)

\* C11: IndexFlatIP.add_data with as many keys as vectors succeeds whatever
\* the keys are; the i-th vector of the batch (from 0) is then the one search
\* reports under id N + i, N being the number of vectors stored before the
\* call, and the ids of the vectors stored before are unchanged, so the j-th
\* vector inserted overall is reported under id j.  The caller's key of a
\* vector is the id of that vector only when the key is the position of the
\* vector in insertion order (or the vector at that position is an equal one).
PositionalIds ==
    [][(last'.op = "add_data" /\ IsBackend(db) /\ db.kind = "IndexFlatIP") =>
       \A keys \in SeqsUpTo(Ids, MaxBatch), vectors \in SeqsUpTo(Vecs, MaxBatch) :
          (AddData(keys, vectors, {}) /\ Len(keys) = Len(vectors)) =>
             /\ last'.out = "ok"
             /\ \A i \in DOMAIN vectors :
                   ReportedUnder(db', Len(db.index) + i - 1, vectors[i])
             /\ \A j \in 0..(Len(db.index) - 1) : \A v \in Vecs :
                   ReportedUnder(db, j, v) => ReportedUnder(db', j, v)
             /\ \A i \in DOMAIN keys :
                   ReportedUnder(db', keys[i], vectors[i]) =>
                      \/ keys[i] = Len(db.index) + i - 1
                      \/ /\ keys[i] < Len(db'.index)
                         /\ StoredVecs(db')[keys[i] + 1] = vectors[i]]_vars

\* C11 witness: IndexFlatIP holds two different vectors after an add_data;
\* id 0 reports the first inserted and id 1 the second.
PositionalIdsWitness ==
    /\ last.op = "add_data"
    /\ last.out = "ok"
    /\ IsBackend(db)
    /\ db.kind = "IndexFlatIP"
    /\ Len(db.index) = 2
    /\ StoredVecs(db)[1] # StoredVecs(db)[2]
    /\ ReportedUnder(db, 0, StoredVecs(db)[1])
    /\ ReportedUnder(db, 1, StoredVecs(db)[2])

(***************************************************************************)
(* Properties of persistence (checked under SpecIO).                       *)
(***************************************************************************)
Readable(f) == f.t = "file"

\* the config document save_pretrained writes for b when no config is passed
DefaultConfig(b) == GLiNERDBConfig(DefaultDbType(b.kind), b.ndim, b.metric)

\* C1: save_pretrained(dir) in which no write fails, followed by
\* from_pretrained(dir) of the same class, returns a backend whose search gives
\* the same ids and the same distances as the saved one, for every query and
\* every k.
RoundTrip ==
    [][(/\ last.op = "save_pretrained"
        /\ last.err = ""
        /\ dir.config = File(DefaultConfig(db))
        /\ last'.op = "from_pretrained"
        /\ last'.kind = db.kind)
       => /\ last'.out = "instance"
          /\ IsBackend(db')
          /\ \A q \in Vecs, k \in TopKs : SearchResult(db', q, k) = SearchResult(db, q, k)]_vars

\* C1 witness: a backend holding MaxStored vectors came back from the directory.
RoundTripWitness ==
    /\ last.op = "from_pretrained"
    /\ last.out = "instance"
    /\ Len(db.index) = MaxStored
    /\ dir.config = File(DefaultConfig(db))

\* the first artifact from_pretrained of class kind finds missing ("" when
\* it finds none missing before it fails otherwise or succeeds)
FirstMissing(kind, d) ==
    IF d.config = NoFile THEN ConfigFile
    ELSE IF ~Readable(d.config) THEN ""
    ELSE IF d.ontology = NoFile THEN OntologyFile
    ELSE IF ~Readable(d.ontology) \/ ~MetricAccepted(kind, d.config.doc.metric) THEN ""
    ELSE IF IndexArtifact(d, kind) = NoFile THEN IndexFile(kind)
    ELSE ""

AnyMissing(kind, d) ==
    d.config = NoFile \/ d.ontology = NoFile \/ IndexArtifact(d, kind) = NoFile

\* C4 as stated: from_pretrained on a directory missing an artifact raises a
\* 'not found' error to its caller and returns no value.
LoadMissingRaises ==
    (last.op = "from_pretrained" /\ AnyMissing(last.kind, dir)) =>
        last.out = "FileNotFoundError"

\* C4, amended: from_pretrained on a directory missing an artifact raises
\* nothing: it prints the error it caught and returns None.  The artifacts are
\* looked for in the order config, ontology, index; the error printed is
\* FileNotFoundError naming the first one missing in that order, unless
\* reading an earlier document or building the instance (a metric the class
\* rejects) has failed before the missing file is looked for.
LoadMissingReturnsNone ==
    (last.op = "from_pretrained" /\ AnyMissing(last.kind, dir)) =>
        /\ last.out = "None"
        /\ db = None
        /\ last.err # ""
        /\ FirstMissing(last.kind, dir) # "" =>
              last.err = "FileNotFoundError" /\ last.file = FirstMissing(last.kind, dir)
        /\ dir.config = NoFile => last.file = ConfigFile
        /\ (Readable(dir.config) /\ dir.ontology = NoFile) => last.file = OntologyFile

\* C4 witness: config and ontology are there, the index file is not.
LoadMissingIndexWitness ==
    /\ last.op = "from_pretrained"
    /\ last.err = "FileNotFoundError"
    /\ last.file = IndexFile(last.kind)
    /\ Readable(dir.config)
    /\ Readable(dir.ontology)

\* C5: AutoGLiNERDb.from_pretrained on a directory with a config document
\* returns what HNSW.from_pretrained returns for db_type "HNSW", what
\* IndexFlatIP.from_pretrained returns for "HNSWfaiss", and raises
\* ValueError (unsupported database type) for every other db_type.
SelectorDispatch ==
    (last.op = "AutoGLiNERDb.from_pretrained" /\ Readable(dir.config)) =>
        LET t == dir.config.doc.db_type
            cls == IF t = "HNSW" THEN "HNSW" ELSE "IndexFlatIP"
        IN  IF t \in {"HNSW", "HNSWfaiss"}
               THEN /\ last.out = FromPretrainedResult(cls, dir).call.out
                    /\ db = FromPretrainedResult(cls, dir).db
               ELSE last.out = "ValueError"

\* C6: no IndexFlatIP backend exists with a metric other than 'dotprod':
\* IndexFlatIP(...) with such a metric raises ValueError and the caller gets
\* no object; IndexFlatIP.from_pretrained on a config with such a metric
\* fails in the constructor, before the index file is read, and yields None.
MetricGuard ==
    /\ (IsBackend(db) /\ db.kind = "IndexFlatIP") => db.metric = "dotprod"
    /\ (last.op = "init" /\ last.kind = "IndexFlatIP" /\ last.metric # "dotprod") =>
          last.out = "ValueError"
    /\ (/\ last.op = "from_pretrained"
        /\ last.kind = "IndexFlatIP"
        /\ Readable(dir.config)
        /\ Readable(dir.ontology)
        /\ dir.config.doc.metric # "dotprod") =>
          /\ last.out = "None"
          /\ last.err = "ValueError"
          /\ db = None

\* C6 witness: IndexFlatIP.from_pretrained met a saved config with metric
\* 'cos' while the faiss index file was there to be read.
MetricGuardWitness ==
    /\ last.op = "from_pretrained"
    /\ last.kind = "IndexFlatIP"
    /\ last.err = "ValueError"
    /\ Readable(dir.faiss)
    /\ dir.config.doc.metric = "cos"

\* C7: save_pretrained returns normally whatever fails.  It creates the
\* directory, then writes the native index, the config document and the
\* ontology document in that order; when a step fails, what the earlier steps
\* wrote stays and the later artifacts are left as they were; when no step
\* fails all three artifacts are there, holding the backend's data.
SaveBestEffort ==
    [][last'.op = "save_pretrained" =>
         LET f == last'.file
             index == IndexArtifact(dir', db.kind)
         IN  /\ last'.out = "ok"
             /\ db' = db
             /\ f = "makedirs" => (~dir.exists /\ dir' = dir)
             /\ f # "makedirs" => dir'.exists
             /\ f = "index" => (dir'.config = dir.config /\ dir'.ontology = dir.ontology)
             /\ f = "config" => (index = File(db.index) /\ dir'.ontology = dir.ontology)
             /\ f = "ontology" => (index = File(db.index) /\ Readable(dir'.config))
             /\ f = "" => /\ index = File(db.index)
                          /\ Readable(dir'.config)
                          /\ dir'.ontology = File(JsonDumpOntology(db.ontology))]_vars

\* C7 witness: the config write failed in a fresh directory: the index file
\* is there, the ontology document is not.
SavePartialWitness ==
    /\ last.op = "save_pretrained"
    /\ last.file = "config"
    /\ IndexArtifact(dir, db.kind) = File(db.index)
    /\ Len(db.index) > 0
    /\ dir.ontology = NoFile

(***************************************************************************)
(* Properties of the evaluator (checked under SpecEval).                   *)
(***************************************************************************)
\* some id the search returns for the span resolves to the span's gold label
Hit(b, span, top_k) ==
    \E id \in Range(SearchResult(b, span.emb, top_k).ids) :
        HasStrKey(b.ontology, id) /\ b.ontology.labels[id] = span.label

\* the ontology has an entry ontology[str(key)] for every stored key
ResolvesStored(b) == \A j \in DOMAIN b.index : HasStrKey(b.ontology, b.index[j].key)

\* C9: evaluate_in_context(top_k), for every top_k, appends one score per gold
\* span, 1 if a label resolved from the ids the search returned is the gold
\* label and 0 otherwise, and returns the mean of the scores, or 0 when there
\* is none.  Stated for a backend whose ontology resolves every stored key,
\* so that every label the claim speaks of exists.
EvaluatorAccuracy ==
    (last.op = "evaluate_in_context" /\ ResolvesStored(ev.db)) =>
        LET spans == AllSpans(ev.data)
        IN  /\ last.out = "ok"
            /\ Len(ev.scores) = Len(spans)
            /\ \A i \in DOMAIN ev.scores :
                  ev.scores[i] = IF Hit(ev.db, spans[i], last.k) THEN 1 ELSE 0
            /\ IF spans = <<>>
                  THEN last.num = 0
                  ELSE last.num * Len(spans) = Sum(ev.scores) * last.den

\* C10: EntityLinkingEvaluator(data, model, db) on a fresh backend gives the
\* n distinct gold labels the ids 0..n-1 and adds n vectors, the embedding of
\* label i under key i; afterwards the backend's ontology resolves every id a
\* search returns to the label whose embedding is stored under that id.
EvaluatorPopulates ==
    [][(last'.op = "EntityLinkingEvaluator" /\ IsBackend(db) /\ db.index = <<>>) =>
         /\ last'.out = "ok"
         /\ ev'.built
         /\ Range(ev'.labels) = DistinctLabels(ev'.data)
         /\ Len(db'.index) = Len(ev'.labels)
         /\ \A i \in DOMAIN ev'.labels :
               \E j \in DOMAIN db'.index :
                  db'.index[j].key = i - 1 /\ db'.index[j].vec = EncodeLabel(ev'.labels[i])
         /\ \A q \in Vecs, k \in TopKs :
               \A id \in Range(SearchResult(db', q, k).ids) :
                  /\ HasStrKey(db'.ontology, id)
                  /\ id + 1 \in DOMAIN ev'.labels
                  /\ db'.ontology.labels[id] = ev'.labels[id + 1]]_vars

====
